---- MODULE Spec2Model ----
(***************************************************************************)
(* Model of notebooks/silent_integer_overflow.ipynb: a Python kernel whose *)
(* namespace is changed by the notebook's code cells, which a user may run *)
(* in any order and any number of times, and the numpy / scipy.sparse      *)
(* unsigned integer arithmetic those cells call.                           *)
(*                                                                         *)
(* Spec     the notebook's cells over the kernel's namespace.              *)
(* SpecOps  the operations the cells call, applied to inputs drawn from    *)
(*          bounded sets.                                                  *)
(*                                                                         *)
(* Integers here are unbounded; the element widths are the notebook's      *)
(* np.uint8 and np.uint16, reduced explicitly modulo 2^width.              *)
(***************************************************************************)
EXTENDS Integers, Sequences, FiniteSets, TLC

VARIABLES
    rows,         \* kernel name `rows`: row index array, or Undef
    cols,         \* kernel name `cols`: column index array, or Undef
    data,         \* kernel name `data`: value array with its dtype, or Undef
    S, T, U, V,   \* kernel names bound to scipy.sparse.csr_matrix objects
    Ud, Vd,       \* kernel names bound to numpy.ndarray objects
    np_over,      \* numpy's process-wide error mode for 'over' (np.seterr)
    sp_overflow,  \* scipy.special's process-wide error mode for 'overflow'
    pc,           \* position in the notebook: index in Cells of the next cell
    last,         \* the cell executed last
    out,          \* what that cell displayed (its last expression), or Undef
    err,          \* the exception that cell raised, or "none"
    arg,          \* SpecOps: the inputs of the operation under test
    res           \* SpecOps: the operation applied last, with its result

vars == <<rows, cols, data, S, T, U, V, Ud, Vd, np_over, sp_overflow,
          pc, last, out, err, arg, res>>

kernel == <<rows, cols, data, S, T, U, V, Ud, Vd, np_over, sp_overflow,
            pc, last, out, err>>

-----------------------------------------------------------------------------
(* Values of the kernel *)

\* A name that is not bound in the namespace; also "no output".
Undef == [kind |-> "undef"]

IsDef(x) == x.kind # "undef"

\* Bit widths of np.uint8 and np.uint16.
uint8 == 8

uint16 == 16

Widths == {uint8, uint16}

\* Number of values of an unsigned integer of width w.
Modulus(w) == 2 ^ w

\* Largest value of an unsigned integer of width w.
MaxValue(w) == Modulus(w) - 1

\* Storing an integer x into an unsigned element of width w keeps its low w bits.
Wrap(x, w) == x % Modulus(w)

Max(a, b) == IF a >= b THEN a ELSE b

RECURSIVE SeqMax(_)
SeqMax(s) == IF Len(s) = 0 THEN 0 ELSE Max(Head(s), SeqMax(Tail(s)))

\* np.array(values, dtype=...)
ndarray1(w, values) == [kind |-> "array", dtype |-> w, v |-> values]

\* All (row, col) positions of a matrix of the given shape.
Positions(shape) == (0 .. shape[1] - 1) \X (0 .. shape[2] - 1)

\* An optional keyword argument: None when omitted, Some(x) when given.
None == {}

Some(x) == {x}

Given(opt) == CHOOSE x \in opt : TRUE

-----------------------------------------------------------------------------
(* numpy: unsigned integer arrays *)

\* Mutant of ElementAdd: the sum saturates at the largest value.
ElementAddSaturating(a, b, w) ==
    IF a + b > MaxValue(w) THEN MaxValue(w) ELSE a + b

\* One element of x + y for unsigned arrays of result width w: numpy's integer
\* loops keep the low w bits and consult no error mode.
ElementAdd(a, b, w) == Wrap(a + b, w)

\* Mutant of ElementMul: the product saturates at the largest value.
ElementMulSaturating(a, k, w) ==
    IF a * k > MaxValue(w) THEN MaxValue(w) ELSE a * k

\* Mutant of ElementMul: the product is stored whole, whatever the width.
ElementMulExact(a, k, w) == a * k

\* One element of x * k for an unsigned array of result width w.
ElementMul(a, k, w) == Wrap(a * k, w)

\* Mutant of ElementCast: only the low eight bits are kept, whatever the width.
ElementCastByte(a, w) == Wrap(a, uint8)

\* One element of x.astype(dtype): the value stored at the new width.
ElementCast(a, w) == Wrap(a, w)

\* x.astype(dtype) for a 1-d array or an ndarray.
astype(x, w) ==
    [x EXCEPT !.dtype = w,
              !.v = [i \in DOMAIN x.v |-> ElementCast(x.v[i], w)]]

\* x + y for two ndarrays: the result has the wider dtype, and both operands
\* must have the same shape (the notebook's shapes never broadcast).
ndarray_add(x, y) ==
    IF x.shape # y.shape
    THEN [kind |-> "error", type |-> "ValueError"]
    ELSE LET w == Max(x.dtype, y.dtype)
         IN  [kind |-> "ndarray", dtype |-> w, shape |-> x.shape,
              v |-> [p \in Positions(x.shape) |-> ElementAdd(x.v[p], y.v[p], w)]]

\* x * k for an ndarray and a Python integer k that fits x's dtype: the
\* result keeps x's dtype.
ndarray_mul(x, k) ==
    [kind |-> "ndarray", dtype |-> x.dtype, shape |-> x.shape,
     v |-> [p \in Positions(x.shape) |-> ElementMul(x.v[p], k, x.dtype)]]

\* a + b or a * b as mathematical integers.
TrueResult(op, a, b) == IF op = "add" THEN a + b ELSE a * b

\* Mutant of scalar_op: the error mode is not consulted.
scalar_op_silent(op, a, b, w, over) ==
    [kind |-> "scalar", dtype |-> w, v |-> Wrap(TrueResult(op, a, b), w)]

\* np.uintN(a) <op> np.uintN(b) for numpy scalars of width w under the error
\* mode `over`: an overflowing result raises FloatingPointError under 'raise'
\* and otherwise is returned wrapped.
scalar_op(op, a, b, w, over) ==
    LET t == TrueResult(op, a, b)
    IN  IF t > MaxValue(w) /\ over = "raise"
        THEN [kind |-> "error", type |-> "FloatingPointError"]
        ELSE [kind |-> "scalar", dtype |-> w, v |-> Wrap(t, w)]

-----------------------------------------------------------------------------
(* scipy.sparse: csr_matrix *)

\* Mutant of Accumulate: the last entry at p replaces the earlier ones.
RECURSIVE AccumulateLast(_, _, _, _, _, _)
AccumulateLast(d, r, c, p, w, i) ==
    IF i = 0 THEN 0
    ELSE IF <<r[i], c[i]>> = p THEN d[i]
         ELSE AccumulateLast(d, r, c, p, w, i - 1)

\* The value csr_matrix stores at position p: the entries of d whose
\* coordinates are p, summed in order of appearance at the width w of d.
RECURSIVE Accumulate(_, _, _, _, _, _)
Accumulate(d, r, c, p, w, i) ==
    IF i = 0 THEN 0
    ELSE LET acc == Accumulate(d, r, c, p, w, i - 1)
         IN  IF <<r[i], c[i]>> = p THEN ElementAdd(acc, d[i], w) ELSE acc

\* The shape csr_matrix infers from the coordinates: largest index plus one.
InferShape(r, c) == <<SeqMax(r) + 1, SeqMax(c) + 1>>

\* Mutant of csr_matrix: the values are cast to the requested dtype before
\* the duplicates are summed.
csr_matrix_cast_first(d, r, c, shape, dtype) ==
    IF shape = None /\ Len(r) = 0
    THEN [kind |-> "error", type |-> "ValueError"]
    ELSE LET sh  == IF shape = None THEN InferShape(r, c) ELSE Given(shape)
             occ == {<<r[i], c[i]>> : i \in 1 .. Len(r)}
             w   == IF dtype = None THEN d.dtype ELSE Given(dtype)
         IN  IF ~(occ \subseteq Positions(sh))
             THEN [kind |-> "error", type |-> "ValueError"]
             ELSE [kind |-> "csr", dtype |-> w, shape |-> sh,
                   v |-> [p \in occ |->
                            Accumulate(astype(d, w).v, r, c, p, w, Len(r))]]

\* sparse.csr_matrix((d, (r, c)), shape=shape, dtype=dtype), as scipy 1.2.0
\* (the version the notebook names) builds it: duplicates are summed at the
\* dtype of d, and only then is the result stored at the requested dtype.
csr_matrix(d, r, c, shape, dtype) ==
    IF shape = None /\ Len(r) = 0
    THEN [kind |-> "error", type |-> "ValueError"]
    ELSE LET sh  == IF shape = None THEN InferShape(r, c) ELSE Given(shape)
             occ == {<<r[i], c[i]>> : i \in 1 .. Len(r)}
             w   == IF dtype = None THEN d.dtype ELSE Given(dtype)
         IN  IF ~(occ \subseteq Positions(sh))
             THEN [kind |-> "error", type |-> "ValueError"]
             ELSE [kind |-> "csr", dtype |-> w, shape |-> sh,
                   v |-> [p \in occ |->
                            ElementCast(Accumulate(d.v, r, c, p, d.dtype, Len(r)), w)]]

\* M.toarray() (and M.A): the stored value at every stored position, zero at
\* every other; the dtype is kept.
toarray(M) ==
    [kind |-> "ndarray", dtype |-> M.dtype, shape |-> M.shape,
     v |-> [p \in Positions(M.shape) |->
              IF p \in DOMAIN M.v THEN M.v[p] ELSE 0]]

\* The value of sparse matrix M at p.
At(M, p) == IF p \in DOMAIN M.v THEN M.v[p] ELSE 0

\* Mutant of csr_add: only positions stored in both matrices are summed.
csr_add_common(A, B) ==
    IF A.shape # B.shape
    THEN [kind |-> "error", type |-> "ValueError"]
    ELSE LET w == Max(A.dtype, B.dtype)
         IN  [kind |-> "csr", dtype |-> w, shape |-> A.shape,
              v |-> [p \in DOMAIN A.v \cap DOMAIN B.v |->
                       ElementAdd(A.v[p], B.v[p], w)]]

\* A + B for two csr matrices: the sum at the wider dtype over the union of
\* the stored positions; positions whose sum is zero are not stored.
csr_add(A, B) ==
    IF A.shape # B.shape
    THEN [kind |-> "error", type |-> "ValueError"]
    ELSE LET w   == Max(A.dtype, B.dtype)
             sum == [p \in DOMAIN A.v \cup DOMAIN B.v |->
                       ElementAdd(At(A, p), At(B, p), w)]
         IN  [kind |-> "csr", dtype |-> w, shape |-> A.shape,
              v |-> [p \in {q \in DOMAIN sum : sum[q] # 0} |-> sum[p]]]

\* A * k for a csr matrix and a Python integer k that fits A's dtype: every
\* stored value is multiplied, the stored positions are kept.
csr_mul(A, k) ==
    [kind |-> "csr", dtype |-> A.dtype, shape |-> A.shape,
     v |-> [p \in DOMAIN A.v |-> ElementMul(A.v[p], k, A.dtype)]]

IsError(x) == x.kind = "error"

-----------------------------------------------------------------------------
(* The notebook's cells.  Each action is one code cell, named by the line of *)
(* the notebook file its code starts at.  The cells are run from top to      *)
(* bottom in one kernel, after the import cell; the user may leave any cell  *)
(* out.  A cell runs its statements in order; a statement that raises ends   *)
(* the cell and binds nothing, while the statements before it keep their     *)
(* effect.                                                                   *)

\* The code cells in notebook order, by the line each starts at.
Cells == <<64, 76, 96, 115, 134, 157, 179, 199, 208, 229, 246, 267, 277,
           294, 310, 327, 344, 361, 371>>

\* The cell starting at `line` is the next one, and is run.
Run(line) == pc <= Len(Cells) /\ Cells[pc] = line /\ pc' = pc + 1

\* The observations of the first example: two at position 2/2 sum to 256.
Rows1 == <<1, 1, 1, 1, 2, 2, 3, 1, 1, 2>>

Cols1 == <<0, 1, 2, 3, 0, 2, 1, 0, 1, 2>>

Data1 == <<1, 1, 1, 1, 1, 1, 1, 1, 1, 255>>

\* The master matrix's observations: position 2/2 sums to 14.
Data2 == <<1, 1, 1, 1, 1, 1, 1, 1, 1, 13>>

\* The next bunch from the stream: position 2/2 sums to 251.
Rows3 == <<1, 2, 2, 2>>

Cols3 == <<0, 0, 2, 2>>

Data3 == <<1, 1, 1, 250>>

\* The scaling factor of S * 20.
Factor == 20

\* The operands of np.uint8(255) * np.uint8(3).
ScalarA == 255

ScalarB == 3

NameError == [kind |-> "error", type |-> "NameError"]

\* What a cell's assignment leaves in a name: the new value, or the old one
\* when the right-hand side raised.
Bound(old, m) == IF IsError(m) THEN old ELSE m

\* The exception a cell ends with.
Raised(m) == IF IsError(m) THEN m.type ELSE "none"

\* What a cell ending in `M.A` displays for a sparse M.
ShownSparse(m) == IF IsError(m) THEN Undef ELSE toarray(m)

\* What a cell ending in a plain name or expression displays.
Shown(m) == IF IsError(m) THEN Undef ELSE m

\* SpecOps: no operation applied yet.
NoResult == [op |-> "none", val |-> Undef]

Init ==
    /\ rows = Undef /\ cols = Undef /\ data = Undef
    /\ S = Undef /\ T = Undef /\ U = Undef /\ V = Undef
    /\ Ud = Undef /\ Vd = Undef
    /\ np_over = "warn"
    /\ sp_overflow = "ignore"
    /\ pc = 1
    /\ last = "imports"
    /\ out = Undef
    /\ err = "none"
    /\ arg = Undef
    /\ res = NoResult

\* rows, cols, data = the first example's observations.
Cell064 ==
    /\ Run(64)
    /\ rows' = ndarray1(uint8, Rows1)
    /\ cols' = ndarray1(uint8, Cols1)
    /\ data' = ndarray1(uint8, Data1)
    /\ last' = "Cell064" /\ out' = Undef /\ err' = "none"
    /\ UNCHANGED <<S, T, U, V, Ud, Vd, np_over, sp_overflow, arg, res>>

\* S = sparse.csr_matrix((data, (rows, cols))); S.A
Cell076 ==
    LET m == IF IsDef(data)
             THEN csr_matrix(data, rows.v, cols.v, None, None)
             ELSE NameError
    IN  /\ Run(76)
        /\ S' = Bound(S, m)
        /\ last' = "Cell076" /\ out' = ShownSparse(m) /\ err' = Raised(m)
        /\ UNCHANGED <<rows, cols, data, T, U, V, Ud, Vd, np_over, sp_overflow,
                       arg, res>>

\* S = sparse.csr_matrix((data, (rows, cols)), dtype=np.uint16); S.A
Cell096 ==
    LET m == IF IsDef(data)
             THEN csr_matrix(data, rows.v, cols.v, None, Some(uint16))
             ELSE NameError
    IN  /\ Run(96)
        /\ S' = Bound(S, m)
        /\ last' = "Cell096" /\ out' = ShownSparse(m) /\ err' = Raised(m)
        /\ UNCHANGED <<rows, cols, data, T, U, V, Ud, Vd, np_over, sp_overflow,
                       arg, res>>

\* S = sparse.csr_matrix((data.astype(np.uint16), (rows, cols))); S.A
Cell115 ==
    LET m == IF IsDef(data)
             THEN csr_matrix(astype(data, uint16), rows.v, cols.v, None, None)
             ELSE NameError
    IN  /\ Run(115)
        /\ S' = Bound(S, m)
        /\ last' = "Cell115" /\ out' = ShownSparse(m) /\ err' = Raised(m)
        /\ UNCHANGED <<rows, cols, data, T, U, V, Ud, Vd, np_over, sp_overflow,
                       arg, res>>

\* rows, cols, data = the master observations; S = csr_matrix(...); S.A
Cell134 ==
    LET r == ndarray1(uint8, Rows1)
        c == ndarray1(uint8, Cols1)
        d == ndarray1(uint8, Data2)
        m == csr_matrix(d, r.v, c.v, None, None)
    IN  /\ Run(134)
        /\ rows' = r /\ cols' = c /\ data' = d
        /\ S' = Bound(S, m)
        /\ last' = "Cell134" /\ out' = ShownSparse(m) /\ err' = Raised(m)
        /\ UNCHANGED <<T, U, V, Ud, Vd, np_over, sp_overflow, arg, res>>

\* rows, cols, data = the next bunch; T = csr_matrix(..., shape=S.shape); T.A
Cell157 ==
    LET r == ndarray1(uint8, Rows3)
        c == ndarray1(uint8, Cols3)
        d == ndarray1(uint8, Data3)
        m == IF IsDef(S)
             THEN csr_matrix(d, r.v, c.v, Some(S.shape), None)
             ELSE NameError
    IN  /\ Run(157)
        /\ rows' = r /\ cols' = c /\ data' = d
        /\ T' = Bound(T, m)
        /\ last' = "Cell157" /\ out' = ShownSparse(m) /\ err' = Raised(m)
        /\ UNCHANGED <<S, U, V, Ud, Vd, np_over, sp_overflow, arg, res>>

\* U = S + T; U.A
Cell179 ==
    LET m == IF IsDef(S) /\ IsDef(T) THEN csr_add(S, T) ELSE NameError
    IN  /\ Run(179)
        /\ U' = Bound(U, m)
        /\ last' = "Cell179" /\ out' = ShownSparse(m) /\ err' = Raised(m)
        /\ UNCHANGED <<rows, cols, data, S, T, V, Ud, Vd, np_over, sp_overflow,
                       arg, res>>

\* S.A
Cell199 ==
    LET m == IF IsDef(S) THEN S ELSE NameError
    IN  /\ Run(199)
        /\ last' = "Cell199" /\ out' = ShownSparse(m) /\ err' = Raised(m)
        /\ UNCHANGED <<rows, cols, data, S, T, U, V, Ud, Vd, np_over,
                       sp_overflow, arg, res>>

\* V = S * 20; V.A   (also the last cell, line 371, after special.seterr)
SparseScale(cell, line) ==
    LET m == IF IsDef(S) THEN csr_mul(S, Factor) ELSE NameError
    IN  /\ Run(line)
        /\ V' = Bound(V, m)
        /\ last' = cell /\ out' = ShownSparse(m) /\ err' = Raised(m)
        /\ UNCHANGED <<rows, cols, data, S, T, U, Ud, Vd, np_over, sp_overflow,
                       arg, res>>

Cell208 == SparseScale("Cell208", 208)

\* Ud = S.toarray() + T.toarray(); Ud   (also line 327, after np.seterr)
DenseAdd(cell, line) ==
    LET m == IF IsDef(S) /\ IsDef(T)
             THEN ndarray_add(toarray(S), toarray(T))
             ELSE NameError
    IN  /\ Run(line)
        /\ Ud' = Bound(Ud, m)
        /\ last' = cell /\ out' = Shown(m) /\ err' = Raised(m)
        /\ UNCHANGED <<rows, cols, data, S, T, U, V, Vd, np_over, sp_overflow,
                       arg, res>>

Cell229 == DenseAdd("Cell229", 229)

\* Vd = S.toarray() * 20; Vd   (also line 344, after np.seterr)
DenseScale(cell, line) ==
    LET m == IF IsDef(S) THEN ndarray_mul(toarray(S), Factor) ELSE NameError
    IN  /\ Run(line)
        /\ Vd' = Bound(Vd, m)
        /\ last' = cell /\ out' = Shown(m) /\ err' = Raised(m)
        /\ UNCHANGED <<rows, cols, data, S, T, U, V, Ud, np_over, sp_overflow,
                       arg, res>>

Cell246 == DenseScale("Cell246", 246)

\* Ud = S.toarray().astype(np.uint16) + T.toarray().astype(np.uint16); Ud
Cell267 ==
    LET m == IF IsDef(S) /\ IsDef(T)
             THEN ndarray_add(astype(toarray(S), uint16),
                              astype(toarray(T), uint16))
             ELSE NameError
    IN  /\ Run(267)
        /\ Ud' = Bound(Ud, m)
        /\ last' = "Cell267" /\ out' = Shown(m) /\ err' = Raised(m)
        /\ UNCHANGED <<rows, cols, data, S, T, U, V, Vd, np_over, sp_overflow,
                       arg, res>>

\* Vd = S.toarray().astype(np.uint16) * 20; Vd
Cell277 ==
    LET m == IF IsDef(S)
             THEN ndarray_mul(astype(toarray(S), uint16), Factor)
             ELSE NameError
    IN  /\ Run(277)
        /\ Vd' = Bound(Vd, m)
        /\ last' = "Cell277" /\ out' = Shown(m) /\ err' = Raised(m)
        /\ UNCHANGED <<rows, cols, data, S, T, U, V, Ud, np_over, sp_overflow,
                       arg, res>>

\* np.uint8(255) * np.uint8(3)
Cell294 ==
    LET m == scalar_op("mul", ScalarA, ScalarB, uint8, np_over)
    IN  /\ Run(294)
        /\ last' = "Cell294" /\ out' = Shown(m) /\ err' = Raised(m)
        /\ UNCHANGED <<rows, cols, data, S, T, U, V, Ud, Vd, np_over,
                       sp_overflow, arg, res>>

\* _ = np.seterr(over='raise'); np.uint8(255) * np.uint8(3)
Cell310 ==
    LET m == scalar_op("mul", ScalarA, ScalarB, uint8, np_over')
    IN  /\ Run(310)
        /\ np_over' = "raise"
        /\ last' = "Cell310" /\ out' = Shown(m) /\ err' = Raised(m)
        /\ UNCHANGED <<rows, cols, data, S, T, U, V, Ud, Vd, sp_overflow,
                       arg, res>>

Cell327 == DenseAdd("Cell327", 327)

Cell344 == DenseScale("Cell344", 344)

\* _ = special.seterr(overflow='raise')
Cell361 ==
    /\ Run(361)
    /\ sp_overflow' = "raise"
    /\ last' = "Cell361" /\ out' = Undef /\ err' = "none"
    /\ UNCHANGED <<rows, cols, data, S, T, U, V, Ud, Vd, np_over, arg, res>>

Cell371 == SparseScale("Cell371", 371)

\* The user leaves the next cell out.
Skip ==
    /\ pc <= Len(Cells)
    /\ pc' = pc + 1
    /\ UNCHANGED <<rows, cols, data, S, T, U, V, Ud, Vd, np_over, sp_overflow,
                   last, out, err, arg, res>>

Next ==
    \/ Cell064 \/ Cell076 \/ Cell096 \/ Cell115 \/ Cell134 \/ Cell157
    \/ Cell179 \/ Cell199 \/ Cell208 \/ Cell229 \/ Cell246 \/ Cell267
    \/ Cell277 \/ Cell294 \/ Cell310 \/ Cell327 \/ Cell344 \/ Cell361
    \/ Cell371 \/ Skip

Spec == Init /\ [][Next]_vars

-----------------------------------------------------------------------------
(* The operations the cells call, on inputs drawn from bounded sets.  The    *)
(* inputs are the arguments of the calls and the error mode np.seterr has    *)
(* set for the process; each action is one of the notebook's expressions     *)
(* with the notebook's literals replaced by the inputs.                      *)

\* How far below the ends of a dtype's range the sampled scalars reach.
MaxSmall == 1

\* Longest list of observations a matrix is built from.
MaxTriplets == 2

ErrorModes == {"warn", "raise"}

\* Scalars of width w: both ends of the range and the notebook's values.
ValueSamples(w) ==
    (0 .. MaxSmall) \cup {MaxValue(w) - i : i \in 0 .. MaxSmall}
        \cup {ScalarB, Data2[10] + 1, Factor, Data3[4] + 1}

\* Observations (row, col, value) of width w: the notebook's position 2/2 and
\* one other, a count of one and the largest value.
Triplets(w) ==
    {<<p[1], p[2], v>> : p \in {<<2, 2>>, <<1, 0>>}, v \in {1, MaxValue(w)}}

\* The lists of 1 .. MaxTriplets observations, and the master matrix's two
\* observations at 2/2.
TripletLists(w) ==
    UNION {[1 .. n -> Triplets(w)] : n \in 1 .. MaxTriplets}
        \cup {<<<<2, 2, 1>>, <<2, 2, Data2[10]>>>>}

\* The second matrix's observations: none, one, or the notebook's pair at 2/2.
SecondLists(w) ==
    {<<>>} \cup {<<t>> : t \in Triplets(w)}
           \cup {<<<<2, 2, 1>>, <<2, 2, MaxValue(w) - 5>>>>}

\* Scaling factors: they fit every width, and the largest overflows both.
FactorSamples == {0, Factor, MaxValue(uint8)}

\* Two scalars of one width; of a product's operands one fits eight bits, so
\* that the true product stays below 2^31.
ScalarArgs ==
    {x \in UNION {[kind : {"scalars"}, op : {"add", "mul"}, w : {w}, w2 : Widths,
                   over : ErrorModes, a : ValueSamples(w), b : ValueSamples(w)] :
                  w \in Widths} :
        x.op = "mul" => (x.a <= MaxValue(uint8) \/ x.b <= MaxValue(uint8))}

TripletArgs ==
    UNION {[kind : {"triplets"}, w : {w}, w2 : Widths, over : ErrorModes,
            s : TripletLists(w), t : SecondLists(w), k : FactorSamples] :
           w \in Widths}

RowsOf(tr) == [i \in 1 .. Len(tr) |-> tr[i][1]]

ColsOf(tr) == [i \in 1 .. Len(tr) |-> tr[i][2]]

DataOf(tr, w) == ndarray1(w, [i \in 1 .. Len(tr) |-> tr[i][3]])

\* S = sparse.csr_matrix((data, (rows, cols))) for the observations x.s.
ArgS(x) == csr_matrix(DataOf(x.s, x.w), RowsOf(x.s), ColsOf(x.s), None, None)

\* T = sparse.csr_matrix((data, (rows, cols)), shape=S.shape) for x.t.
ArgT(x) ==
    csr_matrix(DataOf(x.t, x.w), RowsOf(x.t), ColsOf(x.t),
               Some(ArgS(x).shape), None)

InitOps ==
    /\ rows = Undef /\ cols = Undef /\ data = Undef
    /\ S = Undef /\ T = Undef /\ U = Undef /\ V = Undef
    /\ Ud = Undef /\ Vd = Undef
    /\ np_over = "warn"
    /\ sp_overflow = "ignore"
    /\ pc = 1
    /\ last = "imports"
    /\ out = Undef
    /\ err = "none"
    /\ arg \in ScalarArgs \cup TripletArgs
    /\ res = NoResult

\* The operation `op` is applied to the inputs and yields `val`.
Apply(op, val) ==
    /\ res' = [op |-> op, val |-> val]
    /\ UNCHANGED <<kernel, arg>>

\* np.uintN(a) + np.uintN(b), np.uintN(a) * np.uintN(b)
OpScalar ==
    /\ arg.kind = "scalars"
    /\ Apply("scalar", scalar_op(arg.op, arg.a, arg.b, arg.w, arg.over))

\* np.array([a, b]).astype(w2) and that cast back to w
OpCast ==
    /\ arg.kind = "scalars"
    /\ LET x == ndarray1(arg.w, <<arg.a, arg.b>>)
       IN  Apply("cast", [there |-> astype(x, arg.w2),
                          back  |-> astype(astype(x, arg.w2), arg.w)])

\* sparse.csr_matrix((data, (rows, cols)))
OpConstruct ==
    /\ arg.kind = "triplets"
    /\ Apply("construct", ArgS(arg))

\* sparse.csr_matrix((data, (rows, cols)), dtype=w2)
OpConstructDtype ==
    /\ arg.kind = "triplets"
    /\ Apply("construct_dtype",
             csr_matrix(DataOf(arg.s, arg.w), RowsOf(arg.s), ColsOf(arg.s),
                        None, Some(arg.w2)))

\* sparse.csr_matrix((data.astype(w2), (rows, cols)))
OpConstructCast ==
    /\ arg.kind = "triplets"
    /\ Apply("construct_cast",
             csr_matrix(astype(DataOf(arg.s, arg.w), arg.w2),
                        RowsOf(arg.s), ColsOf(arg.s), None, None))

\* S.toarray()
OpToDense ==
    /\ arg.kind = "triplets"
    /\ Apply("toarray", toarray(ArgS(arg)))

\* S + T
OpPlus ==
    /\ arg.kind = "triplets"
    /\ Apply("plus", IF IsError(ArgT(arg)) THEN ArgT(arg)
                     ELSE csr_add(ArgS(arg), ArgT(arg)))

\* S.toarray() + T.toarray()
OpDensePlus ==
    /\ arg.kind = "triplets"
    /\ Apply("dense_plus", IF IsError(ArgT(arg)) THEN ArgT(arg)
                           ELSE ndarray_add(toarray(ArgS(arg)), toarray(ArgT(arg))))

\* S * k
OpScale ==
    /\ arg.kind = "triplets"
    /\ Apply("scale", csr_mul(ArgS(arg), arg.k))

\* S.toarray() * k
OpDenseScale ==
    /\ arg.kind = "triplets"
    /\ Apply("dense_scale", ndarray_mul(toarray(ArgS(arg)), arg.k))

NextOps ==
    \/ OpScalar \/ OpCast
    \/ OpConstruct \/ OpConstructDtype \/ OpConstructCast \/ OpToDense
    \/ OpPlus \/ OpDensePlus \/ OpScale \/ OpDenseScale

SpecOps == InitOps /\ [][NextOps]_vars

-----------------------------------------------------------------------------
(* Properties *)

\* The sum of the observations of tr at position p, as a mathematical integer.
RECURSIVE TrueSumAt(_, _)
TrueSumAt(tr, p) ==
    IF Len(tr) = 0 THEN 0
    ELSE (IF <<Head(tr)[1], Head(tr)[2]>> = p THEN Head(tr)[3] ELSE 0)
             + TrueSumAt(Tail(tr), p)

\* How many observations of tr are at position p.
CountAt(tr, p) == Cardinality({i \in 1 .. Len(tr) : <<tr[i][1], tr[i][2]>> = p})

\* x reduced modulo 2^w, by subtracting the multiples of 2^w it contains.
Mod2(x, w) == x - Modulus(w) * (x \div Modulus(w))

\* The value at p of a sparse or a dense matrix.
ValueAt(M, p) == IF M.kind = "csr" THEN At(M, p) ELSE M.v[p]

P22 == <<2, 2>>

\* C1: under the wrap policy (numpy's default error mode), adding two unsigned
\* values of width w yields (a + b) mod 2^w: for two scalars, and at every
\* position of S + T and of S.toarray() + T.toarray().
C1_WrapAdd ==
    /\ (res.op = "scalar" /\ arg.op = "add" /\ arg.over = "warn")
           => /\ ~IsError(res.val)
              /\ res.val.dtype = arg.w
              /\ res.val.v = Mod2(arg.a + arg.b, arg.w)
    /\ (res.op \in {"plus", "dense_plus"} /\ arg.over = "warn"
            /\ ~IsError(res.val))
           => /\ res.val.dtype = arg.w
              /\ \A p \in Positions(ArgS(arg).shape) :
                    ValueAt(res.val, p)
                        = Mod2(At(ArgS(arg), p) + At(ArgT(arg), p), arg.w)

\* C1's case: 14 at 2/2 plus 251 at 2/2 at width 8 is stored as 9.
C1_Witness ==
    /\ res.op = "plus" /\ arg.over = "warn" /\ arg.w = uint8
    /\ ~IsError(res.val)
    /\ At(ArgS(arg), P22) = 14 /\ At(ArgT(arg), P22) = 251
    /\ At(res.val, P22) = 9

\* C2: under the signal policy (np.seterr(over='raise')), a scalar add or
\* multiply whose true result is >= 2^w raises numpy's overflow error and
\* returns no value.
C2_SignalScalar ==
    (res.op = "scalar" /\ arg.over = "raise"
        /\ TrueResult(arg.op, arg.a, arg.b) >= Modulus(arg.w))
        => (IsError(res.val) /\ res.val.type = "FloatingPointError")

\* C2's case: uint8 255 * 3 under 'raise' is an error.
C2_Witness ==
    /\ res.op = "scalar" /\ arg.over = "raise" /\ arg.op = "mul"
    /\ arg.w = uint8 /\ arg.a = ScalarA /\ arg.b = ScalarB
    /\ IsError(res.val)

\* C3: construction from triplets stores at every position the sum of that
\* position's values modulo 2^w, and the value itself where there is one
\* triplet; positions with no triplet are not stored.
C3_ConstructSums ==
    (res.op = "construct" /\ arg.over = "warn")
        => /\ ~IsError(res.val)
           /\ res.val.dtype = arg.w
           /\ \A p \in Positions(res.val.shape) :
                 /\ At(res.val, p) = Mod2(TrueSumAt(arg.s, p), arg.w)
                 /\ (p \in DOMAIN res.val.v) = (CountAt(arg.s, p) > 0)
                 /\ CountAt(arg.s, p) = 1
                        => At(res.val, p) = TrueSumAt(arg.s, p)

\* C3's case: width 8, triplets (2,2,1), (2,2,255): 0 is stored at 2/2.
C3_Witness ==
    /\ res.op = "construct" /\ arg.over = "warn" /\ arg.w = uint8
    /\ arg.s = <<<<2, 2, 1>>, <<2, 2, 255>>>>
    /\ P22 \in DOMAIN res.val.v /\ res.val.v[P22] = 0

\* C4: under wrap, S * k and S.toarray() * k hold (e * k) mod 2^w at every
\* stored position of S and zero at every other, at S's width.
C4_WrapScale ==
    (res.op \in {"scale", "dense_scale"} /\ arg.over = "warn")
        => /\ res.val.dtype = arg.w
           /\ \A p \in Positions(ArgS(arg).shape) :
                 ValueAt(res.val, p)
                     = IF p \in DOMAIN ArgS(arg).v
                       THEN Mod2(ArgS(arg).v[p] * arg.k, arg.w)
                       ELSE 0

\* C4's case: 14 at 2/2 scaled by 20 at width 8 becomes 24.
C4_Witness ==
    /\ res.op = "scale" /\ arg.over = "warn" /\ arg.w = uint8
    /\ arg.k = Factor /\ At(ArgS(arg), P22) = 14
    /\ At(res.val, P22) = 24

\* C5: values cast to a wider width before construction accumulate at that
\* width, while values accumulated at their own width and stored at a wider
\* requested width keep the sum wrapped at their own width.
C5_WidenOrder ==
    /\ (res.op = "construct_cast" /\ arg.w2 >= arg.w)
           => /\ res.val.dtype = arg.w2
              /\ \A p \in Positions(res.val.shape) :
                    At(res.val, p) = Mod2(TrueSumAt(arg.s, p), arg.w2)
    /\ (res.op = "construct_dtype" /\ arg.w2 >= arg.w)
           => /\ res.val.dtype = arg.w2
              /\ \A p \in Positions(res.val.shape) :
                    At(res.val, p) = Mod2(TrueSumAt(arg.s, p), arg.w)
    /\ (arg.kind = "triplets" /\ arg.w = uint8 /\ arg.w2 = uint16
            /\ arg.s = <<<<2, 2, 1>>, <<2, 2, 255>>>>)
           => /\ res.op = "construct_cast" => At(res.val, P22) = 256
              /\ res.op = "construct_dtype" => At(res.val, P22) = 0

\* C5's case: (2,2,1), (2,2,255) cast to width 16 first accumulate to 256.
C5_Witness ==
    /\ res.op = "construct_cast" /\ arg.w = uint8 /\ arg.w2 = uint16
    /\ arg.s = <<<<2, 2, 1>>, <<2, 2, 255>>>>
    /\ At(res.val, P22) = 256

\* Some position's observations sum beyond the largest value of width w.
ConstructionOverflows(tr, w) ==
    \E i \in 1 .. Len(tr) : TrueSumAt(tr, <<tr[i][1], tr[i][2]>>) > MaxValue(w)

\* C6: under the signal policy, constructing a matrix whose observations at
\* one position sum beyond the width's largest value fails and produces no
\* matrix.
C6_SignalConstruct ==
    (res.op = "construct" /\ arg.over = "raise"
        /\ ConstructionOverflows(arg.s, arg.w))
        => IsError(res.val)

\* Every value of matrix M lies in the range of M's dtype.
InRange(M) ==
    (IsDef(M) /\ M.kind \in {"csr", "ndarray"})
        => \A p \in DOMAIN M.v : 0 <= M.v[p] /\ M.v[p] <= MaxValue(M.dtype)

\* Cells that add or scale whole matrices.
BulkCells == {"Cell179", "Cell208", "Cell229", "Cell246", "Cell327", "Cell344",
              "Cell371"}

\* The bulk cell run last had its operands bound, and its true result exceeds
\* the largest value of the width it is stored at.
BulkOverflows ==
    /\ last \in BulkCells
    /\ IF last \in {"Cell179", "Cell229", "Cell327"}
       THEN /\ IsDef(S) /\ IsDef(T) /\ S.shape = T.shape
            /\ \E p \in Positions(S.shape) :
                  At(S, p) + At(T, p) > MaxValue(Max(S.dtype, T.dtype))
       ELSE /\ IsDef(S)
            /\ \E p \in Positions(S.shape) :
                  At(S, p) * Factor > MaxValue(S.dtype)

\* C7: every overflowing operation run before the switch to 'raise' wraps, and
\* every overflowing operation run after it, scalar or bulk, raises an
\* overflow error instead of yielding a wrapped result.
C7_PolicyEverywhere ==
    /\ (last = "Cell294" /\ np_over = "warn")
           => (err = "none" /\ out.v = Mod2(ScalarA * ScalarB, uint8))
    /\ (np_over = "warn" /\ BulkOverflows)
           => (err = "none" /\ InRange(out))
    /\ (last \in {"Cell294", "Cell310"} /\ np_over = "raise")
           => err = "FloatingPointError"
    /\ (np_over = "raise" /\ BulkOverflows)
           => err = "FloatingPointError"

\* C8: widening keeps the numeric value, and widening then narrowing back
\* returns the original value at the original width.
C8_CastRoundTrip ==
    (res.op = "cast" /\ arg.w2 >= arg.w)
        => /\ res.val.there.dtype = arg.w2
           /\ res.val.there.v = <<arg.a, arg.b>>
           /\ res.val.back.dtype = arg.w
           /\ res.val.back.v = <<arg.a, arg.b>>

\* C8's case: 255 of width 8 cast to width 16 and back.
C8_Witness ==
    /\ res.op = "cast" /\ arg.w = uint8 /\ arg.w2 = uint16
    /\ arg.a = 255
    /\ res.val.there.v[1] = 255 /\ res.val.back.v[1] = 255

\* C9: whatever cells have run, under either error mode, every value of every
\* matrix in the namespace (and of the one displayed) lies in 0 .. 2^w - 1 for
\* the matrix's width w; a cell that raised displayed no matrix.
C9_ValuesInRange ==
    /\ InRange(S) /\ InRange(T) /\ InRange(U) /\ InRange(V)
    /\ InRange(Ud) /\ InRange(Vd) /\ InRange(out)
    /\ err # "none" => out = Undef

\* C9's case: after the switch to 'raise', the scaled master matrix holds the
\* in-range value 24 where the true product is 280.
C9_Witness ==
    /\ np_over = "raise" /\ last = "Cell371" /\ err = "none"
    /\ V.dtype = uint8 /\ At(S, P22) * Factor = 280 /\ At(V, P22) = 24

\* C10: the sparse and the dense paths agree under either error mode: the
\* dense form of S + T is S.toarray() + T.toarray(), the dense form of S * k
\* is S.toarray() * k, and toarray keeps every stored value and the dtype and
\* puts zero elsewhere.
C10_SparseDenseAgree ==
    /\ res.op = "plus" =>
           IF IsError(res.val) THEN IsError(ArgT(arg))
           ELSE toarray(res.val) = ndarray_add(toarray(ArgS(arg)), toarray(ArgT(arg)))
    /\ res.op = "dense_plus" =>
           IF IsError(res.val) THEN IsError(ArgT(arg))
           ELSE res.val = toarray(csr_add(ArgS(arg), ArgT(arg)))
    /\ res.op = "scale" =>
           toarray(res.val) = ndarray_mul(toarray(ArgS(arg)), arg.k)
    /\ res.op = "dense_scale" =>
           res.val = toarray(csr_mul(ArgS(arg), arg.k))
    /\ res.op = "toarray" =>
           /\ res.val.dtype = ArgS(arg).dtype
           /\ DOMAIN res.val.v = Positions(ArgS(arg).shape)
           /\ \A p \in Positions(ArgS(arg).shape) :
                 res.val.v[p] = IF CountAt(arg.s, p) > 0
                                THEN ArgS(arg).v[p] ELSE 0

\* C10's case: S + T wraps at 2/2 (14 + 251 stored as 9) on the sparse path,
\* exactly as on the dense path.
C10_Witness ==
    /\ res.op = "plus" /\ arg.w = uint8 /\ ~IsError(res.val)
    /\ At(ArgS(arg), P22) + At(ArgT(arg), P22) = 265
    /\ toarray(res.val).v[P22] = 9
    /\ ndarray_add(toarray(ArgS(arg)), toarray(ArgT(arg))).v[P22] = 9

====
